---- MODULE Spec2Model ----
(***************************************************************************)
(* Heir-claim core of the NoString inheritance vault: the api facade       *)
(* (rust/src/api.rs) and the UniFFI crate (rust/nostring-heir-ffi).        *)
(* One facade call is in progress at a time; a call that touches the       *)
(* indexer advances from one indexer operation to the next, every other    *)
(* call is a single step.                                                  *)
(***************************************************************************)
EXTENDS Integers, Sequences, FiniteSets, TLC

VARIABLES
    fn,        \* facade function of the current (or last) call
    args,      \* its arguments
    pc,        \* position inside the call
    ops,       \* indexer operations attempted by the call, in order
    vault,     \* the reconstructed vault held by the call (NoVault before)
    tip,       \* the height get_height returned to the call
    utxos,     \* the list get_utxos returned to the call
    result     \* what the call returned (NoResult while it runs)

vars == <<fn, args, pc, ops, vault, tip, utxos, result>>

\* ------------------------------------------------------------------ bounds

MaxHeight == 4
MaxTimelock == 3
MaxUtxos == 2
MaxValue == 2
MaxInputs == 2
MaxKeys == 1

\* ------------------------------------------------------- program constants

FeeCeiling == 500
MinutesPerBlock == 10

\* ------------------------------------------------------------- JSON values

JAbsent == [t |-> "absent", i |-> 0, s |-> ""]
JInt(n) == [t |-> "int", i |-> n, s |-> ""]
JFloat(n) == [t |-> "float", i |-> n, s |-> ""]
JStr(x) == [t |-> "str", i |-> 0, s |-> x]

\* serde_json::Value::as_u64: Some only for a non-negative integer number.
IsU64(v) == v.t = "int" /\ v.i >= 0
\* serde_json::Value::as_str: Some only for a JSON string.
IsStr(v) == v.t = "str"

\* ---------------------------------------------------- networks, addresses

NetworkTags == {"mainnet", "bitcoin", "testnet", "signet", "regtest", "dogecoin"}

NoNetwork == "None"

parse_network(tag) ==
    CASE tag \in {"mainnet", "bitcoin"} -> "Bitcoin"
      [] tag = "testnet" -> "Testnet"
      [] tag = "signet" -> "Signet"
      [] tag = "regtest" -> "Regtest"
      [] OTHER -> NoNetwork

\* signet taken for testnet
ffi_parse_network_testnets(tag) ==
    CASE tag \in {"mainnet", "bitcoin"} -> "Bitcoin"
      [] tag \in {"testnet", "signet"} -> "Testnet"
      [] tag = "regtest" -> "Regtest"
      [] OTHER -> NoNetwork

ffi_parse_network(tag) ==
    CASE tag \in {"mainnet", "bitcoin"} -> "Bitcoin"
      [] tag = "testnet" -> "Testnet"
      [] tag = "signet" -> "Signet"
      [] tag = "regtest" -> "Regtest"
      [] OTHER -> NoNetwork

\* Human-readable part of the addresses of a network (testnet and signet
\* share "tb"; a tag that names no network is given regtest's).
Hrp(net) ==
    CASE net = "Bitcoin" -> "bc"
      [] net \in {"Testnet", "Signet"} -> "tb"
      [] OTHER -> "bcrt"

\* An address string is a pair <<prefix, program>>: it parses iff its
\* prefix is the human-readable part of some network, and then belongs to the
\* networks with that part.
AddressPrefixes == {"bc", "tb", "bcrt"}
TamperedAddress == <<"bc1ptampered", 0>>
NotAnAddress == <<"notanaddress", 0>>

\* bitcoin::Address::from_str / str::parse::<Address<NetworkUnchecked>>
AddressParses(a) == a[1] \in AddressPrefixes
\* Address::is_valid_for_network / require_network
AddressOnNetwork(a, net) == AddressParses(a) /\ a[1] = Hrp(net)

\* ------------------------------------------------------- backup documents

AbsentAddress == [t |-> "absent", a |-> <<"", 0>>]
StrAddress(x) == [t |-> "str", a |-> x]
AbsentHeirs == [t |-> "absent", labels |-> <<>>]
HeirArray(ls) == [t |-> "array", labels |-> ls]

\* The output program the vault creator commits to: a function of the key
\* material (owner key, cosigner key, chain code, address index, heir keys)
\* and of the timelock encoded in every recovery leaf.
OutputProgram(keys, timelock) == keys * (MaxTimelock + 2) + timelock

\* Address of the Taproot output derived from a document's own material.
DerivedAddress(doc) ==
    <<Hrp(parse_network(doc.network.s)),
      OutputProgram(doc.keys, doc.timelock_blocks.i)>>

\* Another well-formed address of the same network (a different output).
OtherAddress(doc) ==
    <<Hrp(parse_network(doc.network.s)),
      OutputProgram(doc.keys + 1, doc.timelock_blocks.i)>>

VersionValues == {JAbsent, JStr("1"), JFloat(1), JInt(0), JInt(1), JInt(2)}
NetworkValues == {JAbsent, JStr("bitcoin"), JStr("testnet"), JStr("dogecoin")}
\* (65535 is the largest u16; 65536 is the first value `as u16` wraps)
TimelockValues ==
    {JInt(k) : k \in 0..MaxTimelock} \cup {JAbsent, JInt(65535), JInt(65536)}
HeirsValues ==
    {AbsentHeirs, HeirArray(<<>>), HeirArray(<<"Alice">>),
     HeirArray(<<"Bob", "Alice">>)}
ThresholdValues == {JAbsent, JInt(1), JInt(2)}
\* The key-material field a document lacks, if any (`keys` stands for the
\* values of the fields it has).
KeyFields == {"owner_pubkey", "cosigner_pubkey", "chain_code", "address_index"}
AbsentKeyValues == {"none"} \cup KeyFields

BackupBodies ==
    [version : VersionValues, network : NetworkValues, keys : 1..MaxKeys,
     absent_key : AbsentKeyValues,
     timelock_blocks : TimelockValues, threshold : ThresholdValues,
     heirs : HeirsValues, recovery_leaves : 0..1]

WithAddress(body, addr) ==
    [version |-> body.version, network |-> body.network, keys |-> body.keys,
     absent_key |-> body.absent_key,
     timelock_blocks |-> body.timelock_blocks, threshold |-> body.threshold,
     heirs |-> body.heirs, recovery_leaves |-> body.recovery_leaves,
     vault_address |-> addr]

\* Every document carries either the address its material derives, another
\* well-formed address, a string that is no address, or no address at all.
AddressKinds == {"derived", "other", "tampered", "absent"}

RecordedAddress(b, kind) ==
    CASE kind = "derived" -> StrAddress(DerivedAddress(b))
      [] kind = "other" -> StrAddress(OtherAddress(b))
      [] kind = "tampered" -> StrAddress(TamperedAddress)
      [] OTHER -> AbsentAddress

Backups ==
    {WithAddress(b, RecordedAddress(b, kind)) :
        b \in BackupBodies, kind \in AddressKinds}

\* A facade input string: a JSON object, or text that is not JSON.
NotJson == [wf |-> FALSE]
JsonOf(doc) == [wf |-> TRUE, doc |-> doc]
BackupInputs == {JsonOf(d) : d \in Backups} \cup {NotJson}

\* --------------------------------------------------------------- results

NoResult == [done |-> FALSE]
Ok(v) == [done |-> TRUE, ok |-> TRUE, value |-> v]
Err(kind, msg) == [done |-> TRUE, ok |-> FALSE, kind |-> kind, msg |-> msg]
NoVault == [built |-> FALSE]

\* ------------------------------------------ backup decoding, reconstruction

\* serde_json::from_str::<VaultBackup>: every required field present and of
\* its declared type (timelock_blocks is a u16, api.rs:44), version 1.
VaultBackupDecodes(json) ==
    /\ json.wf
    /\ IsU64(json.doc.version) /\ json.doc.version.i = 1
    /\ IsStr(json.doc.network)
    /\ json.doc.absent_key = "none"
    /\ IsU64(json.doc.timelock_blocks) /\ json.doc.timelock_blocks.i < 65536
    /\ IsU64(json.doc.threshold)
    /\ json.doc.heirs.t = "array"
    /\ json.doc.vault_address.t = "str"

\* VaultBackup::reconstruct succeeds iff the network tag resolves, the
\* timelock is a valid relative block count and the derived address
\* string-equals the recorded one.
ReconstructOk(doc) ==
    /\ parse_network(doc.network.s) # NoNetwork
    /\ doc.timelock_blocks.i \in 1..65535
    /\ DerivedAddress(doc) = doc.vault_address.a

reconstruct(doc) ==
    [built |-> TRUE, address |-> DerivedAddress(doc),
     timelock |-> doc.timelock_blocks.i, leaves |-> doc.recovery_leaves]

\* The facade propagates a reconstruction error with `?`.
reconstruct_failed_ignored(doc) == FALSE

reconstruct_failed(doc) == ~ReconstructOk(doc)

\* ------------------------------------------------------ import_vault_backup

heir_labels_reversed(doc) ==
    [i \in 1..Len(doc.heirs.labels) |->
        doc.heirs.labels[Len(doc.heirs.labels) + 1 - i]]

\* backup.heirs.iter().map(|h| h.label.clone()).collect()
heir_labels(doc) ==
    [i \in 1..Len(doc.heirs.labels) |-> doc.heirs.labels[i]]

\* api.rs: errors are strings; the model keeps the message up to its colon.
api_import_vault_backup(json) ==
    IF ~VaultBackupDecodes(json) THEN Err("String", "Invalid JSON")
    ELSE IF reconstruct_failed(json.doc)
    THEN Err("String", "Vault verification failed")
    ELSE Ok([network |-> json.doc.network.s,
             vault_address |-> json.doc.vault_address.a,
             timelock_blocks |-> json.doc.timelock_blocks.i,
             heir_count |-> Len(json.doc.heirs.labels),
             heir_labels |-> heir_labels(json.doc),
             has_recovery_leaves |-> json.doc.recovery_leaves # 0,
             address_verified |-> TRUE])

\* nostring-heir-ffi: reads the fields one by one from a serde_json::Value.
ffi_version_ok(doc) == IsU64(doc.version)

ffi_version_supported_upto(doc) == doc.version.i <= 1

ffi_version_supported(doc) == doc.version.i = 1

\* (the cast to u32 is the identity on every count a document here carries)
ffi_threshold(doc) ==
    IF IsU64(doc.threshold) THEN doc.threshold.i ELSE Len(doc.heirs.labels)

ffi_import_vault_backup(json) ==
    IF ~json.wf THEN Err("InvalidBackup", "Invalid JSON")
    ELSE IF ~ffi_version_ok(json.doc)
    THEN Err("InvalidBackup", "Missing or invalid 'version' field")
    ELSE IF ~ffi_version_supported(json.doc)
    THEN Err("InvalidBackup", "Unsupported backup version")
    ELSE IF ~IsStr(json.doc.network)
    THEN Err("InvalidBackup", "Missing 'network' field")
    ELSE IF json.doc.vault_address.t # "str"
    THEN Err("InvalidBackup", "Missing 'vault_address' field")
    ELSE IF ~IsU64(json.doc.timelock_blocks)
    THEN Err("InvalidBackup", "Missing 'timelock_blocks' field")
    ELSE IF json.doc.heirs.t # "array"
    THEN Err("InvalidBackup", "Missing 'heirs' array")
    ELSE IF ~AddressParses(json.doc.vault_address.a)
    THEN Err("InvalidBackup", "Invalid vault address")
    ELSE Ok([network |-> json.doc.network.s,
             vault_address |-> json.doc.vault_address.a,
             timelock_blocks |-> json.doc.timelock_blocks.i % 65536,
             num_heirs |-> Len(json.doc.heirs.labels),
             threshold |-> ffi_threshold(json.doc),
             raw_json |-> json])

\* Stops the call with its return value.
Return(r) ==
    /\ result' = r
    /\ pc' = "done"

\* The facade keeps no state across calls, so a behaviour is one call.
\* A call that touches no indexer is one step: it returns at once.
Returns(f, a, r) ==
    /\ fn' = f
    /\ args' = a
    /\ Return(r)
    /\ ops' = <<>>
    /\ vault' = NoVault
    /\ tip' = 0
    /\ utxos' = <<>>

ImportVaultBackup ==
    /\ pc = "idle"
    /\ \E json \in BackupInputs :
        Returns("api.import_vault_backup", [json |-> json],
                api_import_vault_backup(json))

FfiImportVaultBackup ==
    /\ pc = "idle"
    /\ \E json \in BackupInputs :
        Returns("ffi.import_vault_backup", [json |-> json],
                ffi_import_vault_backup(json))

\* ------------------------------------------------------------ parse_network

\* The tags of the tests, and strings close to a tag.
TagStrings == NetworkTags \cup {"invalid", "Bitcoin", "test", ""}

\* api.rs parse_network as its callers see it
ParseNetwork ==
    /\ pc = "idle"
    /\ \E network \in TagStrings :
        Returns("api.parse_network", [network |-> network],
                IF parse_network(network) = NoNetwork
                THEN Err("String", "Unknown network")
                ELSE Ok(parse_network(network)))

\* nostring-heir-ffi parse_network as its callers see it
FfiParseNetwork ==
    /\ pc = "idle"
    /\ \E network \in TagStrings :
        Returns("ffi.parse_network", [network |-> network],
                IF ffi_parse_network(network) = NoNetwork
                THEN Err("InvalidBackup", "Unknown network")
                ELSE Ok(ffi_parse_network(network)))

\* --------------------------------------------------------- validate_address

\* The network is resolved first; a network mismatch is an error here.
validate_address_strict(address, network) ==
    IF parse_network(network) = NoNetwork
    THEN Err("String", "Unknown network")
    ELSE IF ~AddressOnNetwork(address, parse_network(network))
    THEN Err("String", "Invalid address")
    ELSE Ok(TRUE)

\* api.rs: the network is resolved first, then the address is parsed and
\* compared with it.
validate_address(address, network) ==
    IF parse_network(network) = NoNetwork
    THEN Err("String", "Unknown network")
    ELSE IF ~AddressParses(address) THEN Err("String", "Invalid address")
    ELSE Ok(AddressOnNetwork(address, parse_network(network)))

AddressStrings == {<<h, 0>> : h \in AddressPrefixes} \cup {NotAnAddress}

ValidateAddress ==
    /\ pc = "idle"
    /\ \E address \in AddressStrings, network \in NetworkTags :
        Returns("api.validate_address",
                [address |-> address, network |-> network],
                validate_address(address, network))

\* -------------------------------------------------------- check_eligibility

\* api.rs: signed 64-bit arithmetic (the casts from u64 are the identity on
\* block heights, which stay far below 2^63).  days_remaining is
\* minutes_remaining / 1440 as a float.
api_eligibility(timelock_blocks, current_height, confirmation_height) ==
    LET blocks_since_confirm == current_height - confirmation_height
        blocks_remaining == timelock_blocks - blocks_since_confirm
    IN  [eligible |-> blocks_remaining <= 0,
         blocks_remaining |-> blocks_remaining,
         minutes_remaining |-> blocks_remaining * MinutesPerBlock]

api_check_eligibility(json, current_height, confirmation_height) ==
    IF ~VaultBackupDecodes(json) THEN Err("String", "Invalid JSON")
    ELSE Ok(api_eligibility(json.doc.timelock_blocks.i, current_height,
                            confirmation_height))

\* u32::saturating_sub
saturating_sub(a, b) == IF a >= b THEN a - b ELSE 0

\* The unit changes at 60 and at 1440 minutes, not above them.
ffi_time_remaining_inclusive(remaining) ==
    LET minutes == remaining * MinutesPerBlock
    IN  IF minutes >= 1440 THEN [unit |-> "days", n |-> minutes \div 1440]
        ELSE IF minutes >= 60 THEN [unit |-> "hours", n |-> minutes \div 60]
        ELSE [unit |-> "minutes", n |-> minutes]

ffi_time_remaining(remaining) ==
    LET minutes == remaining * MinutesPerBlock
    IN  IF minutes > 1440 THEN [unit |-> "days", n |-> minutes \div 1440]
        ELSE IF minutes > 60 THEN [unit |-> "hours", n |-> minutes \div 60]
        ELSE [unit |-> "minutes", n |-> minutes]

ffi_check_eligibility(info, current_block_height, vault_confirmed_height) ==
    LET blocks_needed == info.timelock_blocks
        blocks_since_confirm ==
            saturating_sub(current_block_height, vault_confirmed_height)
    IN  IF blocks_since_confirm >= blocks_needed
        THEN [eligible |-> TRUE, blocks_remaining |-> 0,
              time_remaining |-> [unit |-> "Ready to claim!", n |-> 0],
              current_height |-> current_block_height]
        ELSE [eligible |-> FALSE,
              blocks_remaining |-> blocks_needed - blocks_since_confirm,
              time_remaining |->
                  ffi_time_remaining(blocks_needed - blocks_since_confirm),
              current_height |-> current_block_height]

\* Documents that differ only in what the calls below read: version, network,
\* timelock, recovery leaves and recorded address.
StandardBodies ==
    {b \in BackupBodies :
        /\ b.keys = 1
        /\ b.absent_key = "none"
        /\ b.heirs = HeirArray(<<"Alice">>)
        /\ b.threshold = JInt(1)
        /\ b.version \in {JInt(1), JInt(2)}}

\* (7 and 145 blocks are the first timelocks estimated in hours and in days)
EstimateTimelocks == {JInt(7), JInt(145)}

EstimateBodies ==
    {[b EXCEPT !.timelock_blocks = k] :
        b \in {x \in StandardBodies : x.version = JInt(1)},
        k \in EstimateTimelocks}

EligibilityInputs ==
    {JsonOf(WithAddress(b, StrAddress(DerivedAddress(b)))) :
        b \in {x \in StandardBodies \cup EstimateBodies :
                  x.network = JStr("bitcoin") /\ x.recovery_leaves = 1}}
    \cup {NotJson}

\* The VaultInfo records the FFI's own import hands to its callers.
FfiVaultInfos ==
    {ffi_import_vault_backup(j).value :
        j \in {x \in EligibilityInputs : ffi_import_vault_backup(x).ok}}

Heights == 0..MaxHeight

CheckEligibility ==
    /\ pc = "idle"
    /\ \E json \in EligibilityInputs, t \in Heights, c \in Heights :
        Returns("api.check_eligibility",
                [json |-> json, current_height |-> t,
                 confirmation_height |-> c],
                api_check_eligibility(json, t, c))

FfiCheckEligibility ==
    /\ pc = "idle"
    /\ \E info \in FfiVaultInfos, t \in Heights, c \in Heights :
        Returns("ffi.check_eligibility",
                [vault |-> info, current_height |-> t,
                 confirmation_height |-> c],
                Ok(ffi_check_eligibility(info, t, c)))

\* ------------------------------------------------------------- the indexer

\* One unspent output as nostring_electrum reports it; height 0 means
\* unconfirmed.
\* (130 sat is what a one-input claim costs at 1 sat/vB)
UtxoValues == {1, 130, 100000 * MaxValue}
Utxos == [value : UtxoValues, height : 0..MaxHeight]
\* A reply of get_utxos: unspent outputs of the vault's script, each with its
\* own outpoint (the k-th outpoint of a reply is named k).
Reported(u, k) ==
    [outpoint |-> k, value |-> u.value, script_pubkey |-> "vault",
     height |-> u.height]
UtxoLists ==
    UNION {{[k \in 1..n |-> Reported(f[k], k)] : f \in [1..n -> Utxos]} :
              n \in 0..MaxUtxos}

\* An indexer operation the call attempted, with its outcome.
Op(name, ok) == [op |-> name, ok |-> ok]

RECURSIVE SumValues(_)
SumValues(us) ==
    IF us = <<>> THEN 0 ELSE Head(us).value + SumValues(Tail(us))

SetMin(S) == CHOOSE x \in S : \A y \in S : x <= y

\* ------------------------------------------------------- fetch_vault_status

\* The minimum over every UTXO, the unconfirmed (height 0) included.
earliest_confirmation_unfiltered(us, current_height) ==
    IF us = <<>> THEN current_height
    ELSE SetMin({us[i].height : i \in 1..Len(us)})

\* utxos.iter().filter(|u| u.height > 0).map(..).min().unwrap_or(tip)
earliest_confirmation(us, current_height) ==
    LET confirmed == {us[i].height : i \in {j \in 1..Len(us) : us[j].height > 0}}
    IN  IF confirmed = {} THEN current_height ELSE SetMin(confirmed)

vault_status(timelock_blocks, current_height, us) ==
    LET confirmation_height == earliest_confirmation(us, current_height)
        blocks_since == current_height - confirmation_height
        blocks_remaining == timelock_blocks - blocks_since
    IN  [balance_sat |-> SumValues(us),
         utxo_count |-> Len(us),
         current_height |-> current_height,
         confirmation_height |-> confirmation_height,
         eligible |-> blocks_remaining <= 0,
         blocks_remaining |-> blocks_remaining,
         minutes_remaining |-> blocks_remaining * MinutesPerBlock]

FetchBodies ==
    {b \in StandardBodies :
        /\ b.recovery_leaves = 1
        /\ b.network \in {JStr("bitcoin"), JStr("dogecoin")}}

FetchInputs ==
    {JsonOf(WithAddress(b, StrAddress(DerivedAddress(b)))) : b \in FetchBodies}
    \cup {JsonOf(WithAddress(b, StrAddress(OtherAddress(b)))) : b \in FetchBodies}
    \cup {NotJson}

\* Entry: decode the backup, reconstruct the vault, resolve the network.
FetchVaultStatus ==
    /\ pc = "idle"
    /\ \E json \in FetchInputs :
        /\ fn' = "api.fetch_vault_status"
        /\ args' = [json |-> json]
        /\ ops' = <<>>
        /\ tip' = 0
        /\ utxos' = <<>>
        /\ IF ~VaultBackupDecodes(json)
           THEN Return(Err("String", "Invalid JSON")) /\ vault' = NoVault
           ELSE IF reconstruct_failed(json.doc)
           THEN /\ Return(Err("String", "Vault reconstruction failed"))
                /\ vault' = NoVault
           ELSE IF parse_network(json.doc.network.s) = NoNetwork
           THEN /\ Return(Err("String", "Unknown network"))
                /\ vault' = reconstruct(json.doc)
           ELSE /\ pc' = "connect"
                /\ result' = NoResult
                /\ vault' = reconstruct(json.doc)

\* A failed connection is attempted once more.
FetchConnect_retrying ==
    /\ pc = "connect"
    /\ fn = "api.fetch_vault_status"
    /\ \E ok \in BOOLEAN :
        /\ ops' = Append(ops, Op("connect", ok))
        /\ IF ok THEN pc' = "get_height" /\ result' = NoResult
           ELSE IF Len(ops) = 0 THEN pc' = "connect" /\ result' = NoResult
           ELSE Return(Err("String", "Electrum connection failed"))
    /\ UNCHANGED <<fn, args, vault, tip, utxos>>

\* ElectrumClient::new
FetchConnect ==
    /\ pc = "connect"
    /\ fn = "api.fetch_vault_status"
    /\ \E ok \in BOOLEAN :
        /\ ops' = Append(ops, Op("connect", ok))
        /\ IF ok THEN pc' = "get_height" /\ result' = NoResult
           ELSE Return(Err("String", "Electrum connection failed"))
    /\ UNCHANGED <<fn, args, vault, tip, utxos>>

\* client.get_height
FetchGetHeight ==
    /\ pc = "get_height"
    /\ fn = "api.fetch_vault_status"
    /\ \/ \E h \in Heights :
            /\ ops' = Append(ops, Op("get_height", TRUE))
            /\ tip' = h
            /\ pc' = "get_utxos"
            /\ result' = NoResult
       \/ /\ ops' = Append(ops, Op("get_height", FALSE))
          /\ Return(Err("String", "Failed to get block height"))
          /\ tip' = tip
    /\ UNCHANGED <<fn, args, vault, utxos>>

\* client.get_utxos, then the arithmetic on its reply
FetchGetUtxos ==
    /\ pc = "get_utxos"
    /\ fn = "api.fetch_vault_status"
    /\ \/ \E us \in UtxoLists :
            /\ ops' = Append(ops, Op("get_utxos", TRUE))
            /\ utxos' = us
            /\ Return(Ok(vault_status(args.json.doc.timelock_blocks.i, tip, us)))
       \/ /\ ops' = Append(ops, Op("get_utxos", FALSE))
          /\ Return(Err("String", "Failed to fetch UTXOs"))
          /\ utxos' = utxos
    /\ UNCHANGED <<fn, args, vault, tip>>

\* ------------------------------------------------------------ finalize_psbt

\* The signature-bearing fields of one PSBT input: the optional fields as
\* present or not, the two maps as sets of entries.
PsbtInputs ==
    [final_script_witness : BOOLEAN, final_script_sig : BOOLEAN,
     tap_key_sig : BOOLEAN, tap_script_sigs : SUBSET {"sig"},
     partial_sigs : SUBSET {"sig"}]

\* A deserialized PSBT: its inputs, and whether Psbt::extract_tx accepts it
\* (extract_tx fails when an input lacks its UTXO or the fee rate is absurd;
\* it does not look at the signature fields).
Psbts ==
    UNION {[inputs : [1..n -> PsbtInputs], extractable : BOOLEAN] :
              n \in 0..MaxInputs}

\* The argument string: not base64, base64 of something that is no PSBT, or
\* the base64 of a serialized PSBT.
NotBase64 == [base64 |-> FALSE]
NotPsbt == [base64 |-> TRUE, is_psbt |-> FALSE]
Base64Of(p) == [base64 |-> TRUE, is_psbt |-> TRUE, psbt |-> p]
PsbtStrings == {Base64Of(p) : p \in Psbts} \cup {NotBase64, NotPsbt}

is_signed_final_only(input) ==
    input.final_script_witness \/ input.final_script_sig

is_signed(input) ==
    \/ input.final_script_witness
    \/ input.final_script_sig
    \/ input.tap_key_sig
    \/ input.tap_script_sigs # {}
    \/ input.partial_sigs # {}

signed_count(psbt) ==
    Cardinality({i \in 1..Len(psbt.inputs) : is_signed(psbt.inputs[i])})

\* Psbt::extract_tx: copies each input's final_script_sig and
\* final_script_witness into the transaction, empty when absent.
extract_tx(psbt) ==
    [input |-> [i \in 1..Len(psbt.inputs) |->
                   [script_sig |-> psbt.inputs[i].final_script_sig,
                    witness |-> psbt.inputs[i].final_script_witness]]]

ErrCounts(msg, signed, total) ==
    [done |-> TRUE, ok |-> FALSE, kind |-> "String", msg |-> msg,
     signed |-> signed, total |-> total]

\* Extraction is tried before the signatures are counted.
finalize_psbt_extract_first(psbt_base64) ==
    IF ~psbt_base64.base64 THEN Err("String", "Invalid base64")
    ELSE IF ~psbt_base64.is_psbt THEN Err("String", "Invalid PSBT")
    ELSE LET psbt == psbt_base64.psbt
             total_inputs == Len(psbt.inputs)
         IN  IF ~psbt.extractable
             THEN Err("String", "Could not finalize the transaction")
             ELSE IF signed_count(psbt) = 0
             THEN ErrCounts("This PSBT has not been signed yet", 0,
                            total_inputs)
             ELSE IF signed_count(psbt) < total_inputs
             THEN ErrCounts("This PSBT is only partially signed",
                            signed_count(psbt), total_inputs)
             ELSE Ok([tx |-> extract_tx(psbt),
                      num_inputs |-> Len(extract_tx(psbt).input)])

finalize_psbt(psbt_base64) ==
    IF ~psbt_base64.base64 THEN Err("String", "Invalid base64")
    ELSE IF ~psbt_base64.is_psbt THEN Err("String", "Invalid PSBT")
    ELSE LET psbt == psbt_base64.psbt
             total_inputs == Len(psbt.inputs)
         IN  IF signed_count(psbt) = 0
             THEN ErrCounts("This PSBT has not been signed yet", 0,
                            total_inputs)
             ELSE IF signed_count(psbt) < total_inputs
             THEN ErrCounts("This PSBT is only partially signed",
                            signed_count(psbt), total_inputs)
             ELSE IF ~psbt.extractable
             THEN Err("String", "Could not finalize the transaction")
             ELSE Ok([tx |-> extract_tx(psbt),
                      num_inputs |-> Len(extract_tx(psbt).input)])

FinalizePsbt ==
    /\ pc = "idle"
    /\ \E p \in PsbtStrings :
        Returns("api.finalize_psbt", [psbt_base64 |-> p], finalize_psbt(p))

\* --------------------------------------------------------- build_claim_psbt

fee_rate_too_high_inclusive(fee_rate_sat_vb) == fee_rate_sat_vb >= FeeCeiling

fee_rate_too_high(fee_rate_sat_vb) == fee_rate_sat_vb > FeeCeiling

RECURSIVE CeilLog2(_)
CeilLog2(n) == IF n <= 1 THEN 0 ELSE 1 + CeilLog2((n + 1) \div 2)

\* backup.recovery_leaves.len().max(1), then log2().ceil()
tree_depth(num_leaves) == CeilLog2(IF num_leaves > 1 THEN num_leaves ELSE 1)

\* Virtual bytes of a recovery-path spend: transaction and output overhead,
\* and per input the outpoint, sequence and a quarter of the witness
\* (signature, leaf script, control block of 33 + 32 * depth bytes).
estimate_heir_claim_vbytes(n_inputs, n_outputs, depth) ==
    11 + 43 * n_outputs
       + n_inputs * (41 + (64 + 37 + 33 + 32 * depth + 6) \div 4)

\* The claim PSBT builder: one input per supplied UTXO in the supplied order
\* with nSequence = timelock, one output of sum(values) - fee.
HeirClaimError(v, heir_index, us, fee) ==
    IF us = <<>> THEN "EmptyInputs"
    ELSE IF heir_index >= v.leaves THEN "InvalidHeirIndex"
    ELSE IF SumValues(us) <= fee THEN "InsufficientFunds"
    ELSE "None"

build_heir_claim_psbt(v, heir_index, us, dest, fee) ==
    [inputs |-> [i \in 1..Len(us) |->
                    [previous_output |-> us[i].outpoint,
                     witness_utxo |-> us[i].txout,
                     sequence |-> v.timelock,
                     leaf |-> heir_index]],
     outputs |-> <<[address |-> dest, value |-> SumValues(us) - fee]>>]

saturating_sub_u64_minuend(a, b) == a

\* u64::saturating_sub
saturating_sub_u64(a, b) == IF a >= b THEN a - b ELSE 0

Destinations == {<<"bc", 0>>, <<"tb", 0>>, NotAnAddress}
FeeRates == {1, FeeCeiling, FeeCeiling + 1}
HeirIndexes == 0..1

\* Entry: decode, reconstruct, resolve the network, then the fee ceiling and
\* the destination address.
BuildClaimPsbt ==
    /\ pc = "idle"
    /\ \E json \in FetchInputs, dest \in Destinations,
          heir_index \in HeirIndexes, fee_rate \in FeeRates :
        /\ fn' = "api.build_claim_psbt"
        /\ args' = [json |-> json, destination_address |-> dest,
                    heir_index |-> heir_index, fee_rate_sat_vb |-> fee_rate]
        /\ ops' = <<>>
        /\ tip' = 0
        /\ utxos' = <<>>
        /\ IF ~VaultBackupDecodes(json)
           THEN Return(Err("String", "Invalid JSON")) /\ vault' = NoVault
           ELSE IF reconstruct_failed(json.doc)
           THEN /\ Return(Err("String", "Vault reconstruction failed"))
                /\ vault' = NoVault
           ELSE IF parse_network(json.doc.network.s) = NoNetwork
           THEN /\ Return(Err("String", "Unknown network"))
                /\ vault' = reconstruct(json.doc)
           ELSE IF fee_rate_too_high(fee_rate)
           THEN /\ Return(Err("String",
                              "Fee rate exceeds 500 sat/vB safety limit"))
                /\ vault' = reconstruct(json.doc)
           ELSE IF ~AddressParses(dest)
           THEN /\ Return(Err("String", "Invalid destination address"))
                /\ vault' = reconstruct(json.doc)
           ELSE IF ~AddressOnNetwork(dest, parse_network(json.doc.network.s))
           THEN /\ Return(Err("String", "Address network mismatch"))
                /\ vault' = reconstruct(json.doc)
           ELSE /\ pc' = "connect"
                /\ result' = NoResult
                /\ vault' = reconstruct(json.doc)

\* The tip is asked for once the client is made.
BuildConnect_asking_height ==
    /\ pc = "connect"
    /\ fn = "api.build_claim_psbt"
    /\ \E ok \in BOOLEAN :
        /\ IF ok
           THEN /\ ops' = ops \o <<Op("connect", TRUE), Op("get_height", TRUE)>>
                /\ pc' = "get_utxos"
                /\ result' = NoResult
           ELSE /\ ops' = Append(ops, Op("connect", FALSE))
                /\ Return(Err("String", "Electrum connection failed"))
    /\ UNCHANGED <<fn, args, vault, tip, utxos>>

\* ElectrumClient::new
BuildConnect ==
    /\ pc = "connect"
    /\ fn = "api.build_claim_psbt"
    /\ \E ok \in BOOLEAN :
        /\ ops' = Append(ops, Op("connect", ok))
        /\ IF ok THEN pc' = "get_utxos" /\ result' = NoResult
           ELSE Return(Err("String", "Electrum connection failed"))
    /\ UNCHANGED <<fn, args, vault, tip, utxos>>

TxOut(u) == [value |-> u.value, script_pubkey |-> u.script_pubkey]

utxo_pairs_reversed(us) ==
    [i \in 1..Len(us) |->
        [outpoint |-> us[Len(us) + 1 - i].outpoint,
         txout |-> TxOut(us[Len(us) + 1 - i]),
         value |-> us[Len(us) + 1 - i].value]]

\* utxos.iter().map(|u| (u.outpoint, TxOut { value, script_pubkey }))
\* (value repeats txout.value, for SumValues)
utxo_pairs(us) ==
    [i \in 1..Len(us) |->
        [outpoint |-> us[i].outpoint, txout |-> TxOut(us[i]),
         value |-> us[i].value]]

utxos_is_empty_never(us) == FALSE

\* utxos.is_empty()
utxos_is_empty(us) == Len(us) = 0

claim_psbt(v, a, us) ==
    LET pairs == utxo_pairs(us)
        total_input_sat == SumValues(pairs)
        num_inputs == Len(pairs)
        vbytes == estimate_heir_claim_vbytes(num_inputs, 1,
                                             tree_depth(v.leaves))
        fee_sat == vbytes * a.fee_rate_sat_vb
    IN  IF utxos_is_empty(us) THEN Err("String", "No UTXOs found in vault")
        ELSE IF HeirClaimError(v, a.heir_index, pairs, fee_sat) # "None"
        THEN [done |-> TRUE, ok |-> FALSE, kind |-> "String",
              msg |-> "PSBT construction failed",
              cause |-> HeirClaimError(v, a.heir_index, pairs, fee_sat)]
        ELSE Ok([psbt |-> build_heir_claim_psbt(v, a.heir_index, pairs,
                              a.destination_address, fee_sat),
                 total_input_sat |-> total_input_sat,
                 fee_sat |-> fee_sat,
                 output_sat |-> saturating_sub_u64(total_input_sat, fee_sat),
                 destination |-> a.destination_address,
                 num_inputs |-> num_inputs])

\* client.get_utxos, then fee estimation and PSBT construction
BuildGetUtxos ==
    /\ pc = "get_utxos"
    /\ fn = "api.build_claim_psbt"
    /\ \/ \E us \in UtxoLists :
            /\ ops' = Append(ops, Op("get_utxos", TRUE))
            /\ utxos' = us
            /\ Return(claim_psbt(vault, args, us))
       \/ /\ ops' = Append(ops, Op("get_utxos", FALSE))
          /\ Return(Err("String", "Failed to fetch UTXOs"))
          /\ utxos' = utxos
    /\ UNCHANGED <<fn, args, vault, tip>>

\* ----------------------------------------------------- broadcast_transaction

\* The transaction argument: text that is not hex, hex that decodes to no
\* transaction, or the hex of a transaction.
NotHex == [hex |-> FALSE, is_tx |-> FALSE]
HexNotTx == [hex |-> TRUE, is_tx |-> FALSE]
HexOfTx == [hex |-> TRUE, is_tx |-> TRUE]
TxStrings == {NotHex, HexNotTx, HexOfTx}
BroadcastTags == {"bitcoin", "testnet", "dogecoin"}

\* api.rs: network, hex and transaction are checked, then the client is made.
BroadcastTransaction ==
    /\ pc = "idle"
    /\ \E tx_hex \in TxStrings, network \in BroadcastTags :
        /\ fn' = "api.broadcast_transaction"
        /\ args' = [tx_hex |-> tx_hex, network |-> network]
        /\ ops' = <<>>
        /\ IF parse_network(network) = NoNetwork
           THEN Return(Err("String", "Unknown network"))
           ELSE IF ~tx_hex.hex THEN Return(Err("String", "Invalid hex"))
           ELSE IF ~tx_hex.is_tx
           THEN Return(Err("String", "Invalid transaction"))
           ELSE pc' = "connect" /\ result' = NoResult
    /\ UNCHANGED <<vault, tip, utxos>>

BroadcastConnect ==
    /\ pc = "connect"
    /\ fn = "api.broadcast_transaction"
    /\ \E ok \in BOOLEAN :
        /\ ops' = Append(ops, Op("connect", ok))
        /\ IF ok THEN pc' = "broadcast" /\ result' = NoResult
           ELSE Return(Err("String", "Electrum connection failed"))
    /\ UNCHANGED <<fn, args, vault, tip, utxos>>

BroadcastSend ==
    /\ pc = "broadcast"
    /\ fn = "api.broadcast_transaction"
    /\ \E ok \in BOOLEAN :
        /\ ops' = Append(ops, Op("broadcast", ok))
        /\ IF ok THEN Return(Ok([txid |-> args.tx_hex, success |-> TRUE]))
           ELSE Return(Err("String", "Broadcast failed"))
    /\ UNCHANGED <<fn, args, vault, tip, utxos>>

\* nostring-heir-ffi: the network is resolved, then the client is made, and
\* only then is the transaction decoded.
FfiBroadcastTransaction ==
    /\ pc = "idle"
    /\ \E raw_tx_hex \in TxStrings, network \in BroadcastTags :
        /\ fn' = "ffi.broadcast_transaction"
        /\ args' = [tx_hex |-> raw_tx_hex, network |-> network]
        /\ ops' = <<>>
        /\ IF ffi_parse_network(network) = NoNetwork
           THEN Return(Err("InvalidBackup", "Unknown network"))
           ELSE pc' = "connect" /\ result' = NoResult
    /\ UNCHANGED <<vault, tip, utxos>>

FfiBroadcastConnect ==
    /\ pc = "connect"
    /\ fn = "ffi.broadcast_transaction"
    /\ \E ok \in BOOLEAN :
        /\ ops' = Append(ops, Op("connect", ok))
        /\ IF ~ok THEN Return(Err("NetworkError", "Connection failed"))
           ELSE IF ~args.tx_hex.hex
           THEN Return(Err("SigningError", "Invalid hex"))
           ELSE IF ~args.tx_hex.is_tx
           THEN Return(Err("SigningError", "Invalid transaction"))
           ELSE pc' = "broadcast" /\ result' = NoResult
    /\ UNCHANGED <<fn, args, vault, tip, utxos>>

FfiBroadcastSend ==
    /\ pc = "broadcast"
    /\ fn = "ffi.broadcast_transaction"
    /\ \E ok \in BOOLEAN :
        /\ ops' = Append(ops, Op("broadcast", ok))
        /\ IF ok THEN Return(Ok(args.tx_hex))
           ELSE Return(Err("NetworkError", "Broadcast failed"))
    /\ UNCHANGED <<fn, args, vault, tip, utxos>>

\* ---------------------------------------------------------- get_block_height

\* nostring-heir-ffi: the network is resolved, then the client is made.
FfiGetBlockHeight ==
    /\ pc = "idle"
    /\ \E network \in BroadcastTags :
        /\ fn' = "ffi.get_block_height"
        /\ args' = [network |-> network]
        /\ ops' = <<>>
        /\ IF ffi_parse_network(network) = NoNetwork
           THEN Return(Err("InvalidBackup", "Unknown network"))
           ELSE pc' = "connect" /\ result' = NoResult
    /\ UNCHANGED <<vault, tip, utxos>>

FfiHeightConnect ==
    /\ pc = "connect"
    /\ fn = "ffi.get_block_height"
    /\ \E ok \in BOOLEAN :
        /\ ops' = Append(ops, Op("connect", ok))
        /\ IF ok THEN pc' = "get_height" /\ result' = NoResult
           ELSE Return(Err("NetworkError", "Connection failed"))
    /\ UNCHANGED <<fn, args, vault, tip, utxos>>

FfiHeightGet ==
    /\ pc = "get_height"
    /\ fn = "ffi.get_block_height"
    /\ \/ \E h \in Heights :
            /\ ops' = Append(ops, Op("get_height", TRUE))
            /\ tip' = h
            /\ Return(Ok(h))
       \/ /\ ops' = Append(ops, Op("get_height", FALSE))
          /\ Return(Err("NetworkError", "Failed to get height"))
          /\ tip' = tip
    /\ UNCHANGED <<fn, args, vault, utxos>>

Init ==
    /\ fn = "none"
    /\ args = [json |-> NotJson]
    /\ pc = "idle"
    /\ ops = <<>>
    /\ vault = NoVault
    /\ tip = 0
    /\ utxos = <<>>
    /\ result = NoResult

Next ==
    \/ FfiImportVaultBackup
    \/ ImportVaultBackup
    \/ ParseNetwork
    \/ FfiParseNetwork
    \/ ValidateAddress
    \/ CheckEligibility
    \/ FfiCheckEligibility
    \/ FinalizePsbt
    \/ FfiBroadcastTransaction
    \/ FfiBroadcastConnect
    \/ FfiBroadcastSend
    \/ FfiGetBlockHeight
    \/ FfiHeightConnect
    \/ FfiHeightGet
    \/ BroadcastTransaction
    \/ BroadcastConnect
    \/ BroadcastSend
    \/ FetchVaultStatus
    \/ FetchConnect
    \/ FetchGetHeight
    \/ FetchGetUtxos
    \/ BuildClaimPsbt
    \/ BuildConnect
    \/ BuildGetUtxos

Spec == Init /\ [][Next]_vars


\* ================================================================ claims

\* The error class of the specification's taxonomy a returned error belongs
\* to: the api returns message strings, the FFI crate HeirError variants.
ErrorClass(r) ==
    IF r.kind = "String"
    THEN CASE r.msg = "Invalid JSON" -> "InvalidBackup"
           [] r.msg \in {"Vault verification failed",
                         "Vault reconstruction failed"} -> "VaultVerification"
           [] r.msg = "Unknown network" -> "InvalidBackup"
           [] r.msg = "Fee rate exceeds 500 sat/vB safety limit" -> "FeeTooHigh"
           [] r.msg \in {"Invalid destination address", "Invalid address",
                         "Address network mismatch"} -> "InvalidAddress"
           [] r.msg \in {"Electrum connection failed",
                         "Failed to get block height",
                         "Failed to fetch UTXOs",
                         "Broadcast failed"} -> "Indexer"
           [] r.msg = "No UTXOs found in vault" -> "EmptyInputs"
           [] r.msg \in {"Invalid base64", "Invalid PSBT", "Invalid hex",
                         "Invalid transaction"} -> "Codec"
           [] OTHER -> r.msg
    ELSE CASE r.kind = "NetworkError" -> "Indexer"
           [] r.kind = "SigningError" -> "Codec"
           [] OTHER -> r.kind

Failed(class) == result.done /\ ~result.ok /\ ErrorClass(result) = class

ImportCall == fn \in {"api.import_vault_backup", "ffi.import_vault_backup"}

\* A document that is valid in everything but, possibly, its recorded address.
ValidButAddress(json) ==
    /\ VaultBackupDecodes(json)
    /\ parse_network(json.doc.network.s) # NoNetwork
    /\ json.doc.timelock_blocks.i \in 1..65535

\* C1: an import of a backup whose recorded vault_address differs from the
\* address reconstructed from its key material fails with a verification
\* error and returns no VaultInfo, in the api and in the FFI entry point.
C1_MutatedAddressRejected ==
    (/\ pc = "done"
     /\ ImportCall
     /\ ValidButAddress(args.json)
     /\ args.json.doc.vault_address.a # DerivedAddress(args.json.doc))
        => Failed("VaultVerification")

EligibilityCall == fn \in {"api.check_eligibility", "ffi.check_eligibility"}

\* The timelock k a check_eligibility call was made with.
CallTimelock ==
    IF fn = "api.check_eligibility" THEN args.json.doc.timelock_blocks.i
    ELSE args.vault.timelock_blocks

Max0(x) == IF x > 0 THEN x ELSE 0

\* C2: check_eligibility reports eligible exactly when t - c >= k, for every
\* tip t, confirmation c and timelock k (t < c and k = 0 included), in both
\* implementations.
C2_EligibleIffTimelockPassed ==
    (pc = "done" /\ EligibilityCall /\ result.ok)
        => (result.value.eligible
              <=> (args.current_height - args.confirmation_height
                      >= CallTimelock))

\* C3: the blocks_remaining of check_eligibility and of fetch_vault_status
\* equals max(0, k - (t - c)): never negative, and 0 whenever the result is
\* eligible.
BlocksRemainingClamped(v, k, t, c) ==
    /\ v.blocks_remaining = Max0(k - (t - c))
    /\ v.blocks_remaining >= 0
    /\ (v.eligible => v.blocks_remaining = 0)

C3_BlocksRemainingClamped ==
    /\ (pc = "done" /\ EligibilityCall /\ result.ok)
        => BlocksRemainingClamped(result.value, CallTimelock,
                args.current_height, args.confirmation_height)
    /\ (pc = "done" /\ fn = "api.fetch_vault_status" /\ result.ok)
        => BlocksRemainingClamped(result.value,
                args.json.doc.timelock_blocks.i, tip,
                result.value.confirmation_height)

\* C4: when fetch_vault_status reports eligible for a vault holding one or
\* more UTXOs, every UTXO the indexer returned is confirmed and has
\* tip - height >= timelock_blocks.
C4_EligibleMeansEveryUtxoSpendable ==
    (/\ pc = "done"
     /\ fn = "api.fetch_vault_status"
     /\ result.ok
     /\ result.value.eligible
     /\ Len(utxos) >= 1)
        => \A i \in 1..Len(utxos) :
              /\ utxos[i].height > 0
              /\ tip - utxos[i].height >= args.json.doc.timelock_blocks.i

FinalizeOfPsbt ==
    /\ pc = "done"
    /\ fn = "api.finalize_psbt"
    /\ args.psbt_base64.base64
    /\ args.psbt_base64.is_psbt

\* n and s of the PSBT finalize_psbt was called with, counted from its fields.
NumInputs == Len(args.psbt_base64.psbt.inputs)
NumSigned ==
    Cardinality({i \in 1..NumInputs :
        LET input == args.psbt_base64.psbt.inputs[i]
        IN  \/ input.final_script_witness
            \/ input.final_script_sig
            \/ input.tap_key_sig
            \/ input.tap_script_sigs # {}
            \/ input.partial_sigs # {}})

Unsigned == ~result.ok /\ result.msg = "This PSBT has not been signed yet"
PartiallySigned ==
    ~result.ok /\ result.msg = "This PSBT is only partially signed"
PassesSignatureCheck == ~Unsigned /\ ~PartiallySigned

\* C5 as stated: the signature check passes iff s = n, n = 0 included.
C5_PassesIffAllSigned ==
    FinalizeOfPsbt =>
        /\ PassesSignatureCheck <=> (NumSigned = NumInputs)
        /\ (NumSigned = 0) => (Unsigned /\ result.total = NumInputs)
        /\ (0 < NumSigned /\ NumSigned < NumInputs)
              => /\ PartiallySigned
                 /\ result.signed = NumSigned
                 /\ result.total = NumInputs

\* C5 (amended): on a decodable PSBT with n inputs of which s are signed, the
\* signature check passes iff s = n and n >= 1; s = 0 (a PSBT without inputs
\* included) fails with the Unsigned error naming n, and 0 < s < n fails with
\* the PartiallySigned error naming exactly s and n.
C5_PassesIffAllSignedAndSomeInput ==
    FinalizeOfPsbt =>
        /\ PassesSignatureCheck <=> (NumSigned = NumInputs /\ NumInputs >= 1)
        /\ (NumSigned = 0) => (Unsigned /\ result.total = NumInputs)
        /\ (0 < NumSigned /\ NumSigned < NumInputs)
              => /\ PartiallySigned
                 /\ result.signed = NumSigned
                 /\ result.total = NumInputs

\* A two-input PSBT with one input signed only by a partial signature,
\* refused as partially signed, 1 of 2.
C5_Witness ==
    /\ FinalizeOfPsbt
    /\ NumInputs = 2
    /\ NumSigned = 1
    /\ \E i \in 1..2 :
          /\ args.psbt_base64.psbt.inputs[i].partial_sigs # {}
          /\ ~args.psbt_base64.psbt.inputs[i].final_script_witness
    /\ PartiallySigned
    /\ result.signed = 1
    /\ result.total = 2

\* C6: finalize_psbt returns a FinalizedTx only if every input of the PSBT
\* carries final witness data (final_script_witness or final_script_sig).
C6_FinalizedOnlyWithFinalWitness ==
    (FinalizeOfPsbt /\ result.ok)
        => \A i \in 1..NumInputs :
              \/ args.psbt_base64.psbt.inputs[i].final_script_witness
              \/ args.psbt_base64.psbt.inputs[i].final_script_sig

BuildCall == fn = "api.build_claim_psbt"

\* The backup of a build_claim_psbt call decodes, reconstructs and names a
\* known network.
BuildBackupValid ==
    /\ VaultBackupDecodes(args.json)
    /\ DerivedAddress(args.json.doc) = args.json.doc.vault_address.a
    /\ args.json.doc.timelock_blocks.i \in 1..65535
    /\ args.json.doc.network.s \in NetworkTags \ {"dogecoin"}

BroadcastCall ==
    fn \in {"api.broadcast_transaction", "ffi.broadcast_transaction"}

\* Some argument of the call is invalid on its face: fee rate, destination
\* address or its network, heir_index, network tag, transaction hex.
InvalidArgument ==
    \/ /\ BuildCall
       /\ VaultBackupDecodes(args.json)
       /\ \/ args.fee_rate_sat_vb > 500
          \/ ~AddressParses(args.destination_address)
          \/ args.destination_address[1]
                # Hrp(parse_network(args.json.doc.network.s))
          \/ args.heir_index >= args.json.doc.recovery_leaves
          \/ parse_network(args.json.doc.network.s) = NoNetwork
    \/ /\ BroadcastCall
       /\ \/ parse_network(args.network) = NoNetwork
          \/ ~args.tx_hex.hex
          \/ ~args.tx_hex.is_tx

\* C8: argument validation completes before the first indexer connection or
\* operation, so an invalid argument is never reported as an indexer error,
\* in build_claim_psbt and in both broadcast_transaction implementations.
C8_ValidationBeforeIndexer ==
    InvalidArgument
        => /\ ops = <<>>
           /\ pc = "done" => (~result.ok /\ ~Failed("Indexer"))

ReconstructingCall == fn \in {"api.fetch_vault_status", "api.build_claim_psbt"}

\* C9: fetch_vault_status and build_claim_psbt construct no indexer client
\* and invoke no indexer operation unless reconstruction succeeded in the
\* same call, and a verification failure ends the call with an error.
C9_NoIndexerBeforeVerification ==
    ReconstructingCall
        => /\ (ops # <<>> \/ pc \in {"connect", "get_height", "get_utxos"})
              => /\ vault # NoVault
                 /\ vault.address = args.json.doc.vault_address.a
           /\ (/\ pc = "done"
               /\ VaultBackupDecodes(args.json)
               /\ DerivedAddress(args.json.doc)
                     # args.json.doc.vault_address.a)
                 => (~result.ok /\ ops = <<>>)

\* A backup recording another address than its keys derive, refused by
\* fetch_vault_status with no indexer operation attempted.
C9_Witness ==
    /\ fn = "api.fetch_vault_status"
    /\ pc = "done"
    /\ VaultBackupDecodes(args.json)
    /\ args.json.doc.vault_address.a = OtherAddress(args.json.doc)
    /\ Failed("VaultVerification")
    /\ ops = <<>>

\* C10: every import entry point rejects with InvalidBackup a backup whose
\* version is missing, not an integer, or an integer other than 1.
C10_VersionOtherThanOneRejected ==
    (/\ pc = "done"
     /\ ImportCall
     /\ args.json.wf
     /\ args.json.doc.version # JInt(1))
        => Failed("InvalidBackup")

\* An otherwise acceptable version-2 document refused by the FFI import as
\* unsupported.
C10_Witness ==
    /\ pc = "done"
    /\ fn = "ffi.import_vault_backup"
    /\ args.json.wf
    /\ args.json.doc.version = JInt(2)
    /\ args.json.doc.vault_address.a = DerivedAddress(args.json.doc)
    /\ ~result.ok
    /\ result.msg = "Unsupported backup version"

\* C11: an import of a backup whose timelock_blocks is an integer outside
\* [1, 65535] fails with InvalidBackup, and every returned VaultInfo carries
\* the timelock_blocks written in the backup, within [1, 65535] (no
\* truncation to 16 bits).
C11_TimelockOutOfRangeRejected ==
    (pc = "done" /\ ImportCall /\ args.json.wf
        /\ IsU64(args.json.doc.timelock_blocks))
        => /\ args.json.doc.timelock_blocks.i \notin 1..65535
                => Failed("InvalidBackup")
           /\ result.ok
                => /\ result.value.timelock_blocks
                        = args.json.doc.timelock_blocks.i
                   /\ result.value.timelock_blocks \in 1..65535

\* Some required field of the document is absent or ill-typed.
RequiredFieldMissing(doc) ==
    \/ ~IsU64(doc.version)
    \/ ~IsStr(doc.network)
    \/ doc.absent_key \in KeyFields
    \/ ~IsU64(doc.timelock_blocks)
    \/ ~IsU64(doc.threshold)
    \/ doc.heirs.t # "array"
    \/ doc.vault_address.t # "str"

\* C12: an import fails with InvalidBackup whenever a required field
\* (version, network, owner_pubkey, cosigner_pubkey, chain_code,
\* address_index, timelock_blocks, threshold, heirs, vault_address) is absent
\* or ill-typed; none is defaulted or skipped.
C12_RequiredFieldsEnforced ==
    (pc = "done" /\ ImportCall /\ args.json.wf
        /\ RequiredFieldMissing(args.json.doc))
        => Failed("InvalidBackup")

\* C13: every VaultInfo a successful import returns has threshold <= number
\* of heirs, and no backup whose threshold exceeds len(heirs) is accepted.
C13_ThresholdAtMostHeirs ==
    (pc = "done" /\ ImportCall /\ result.ok)
        => /\ fn = "ffi.import_vault_backup"
                => result.value.threshold <= result.value.num_heirs
           /\ IsU64(args.json.doc.threshold)
                => args.json.doc.threshold.i
                      <= Len(args.json.doc.heirs.labels)

ValidateCall == pc = "done" /\ fn = "api.validate_address"

Networks == {"Bitcoin", "Testnet", "Signet", "Regtest"}

\* The networks an address string is valid for.
NetworksOf(a) == {n \in Networks : Hrp(n) = a[1]}

\* The requested tag names a network the address is valid for.
OnRequestedNetwork == parse_network(args.network) \in NetworksOf(args.address)

\* C14 as stated: validate_address returns Ok(false) when the address parses
\* but is of another network than the requested one, Ok(true) when it parses
\* and matches, and an error exactly when the address fails to parse.
C14_ErrorIffAddressUnparseable ==
    ValidateCall =>
        /\ ~result.ok <=> ~AddressParses(args.address)
        /\ (AddressParses(args.address) /\ OnRequestedNetwork)
              => result = Ok(TRUE)
        /\ (AddressParses(args.address) /\ ~OnRequestedNetwork)
              => result = Ok(FALSE)

\* C14 (amended): validate_address fails with the unknown-network error
\* whenever the network tag does not resolve, whatever the address; for a
\* tag that resolves it fails with InvalidAddress exactly when the address
\* fails to parse, returns Ok(true) when the address parses and is valid for
\* the requested network, and Ok(false), not an error, when it parses but is
\* of another network.
C14_ErrorIffUnknownTagOrUnparseable ==
    ValidateCall =>
        IF parse_network(args.network) = NoNetwork
        THEN ~result.ok /\ result.msg = "Unknown network"
        ELSE /\ ~result.ok <=> ~AddressParses(args.address)
             /\ ~result.ok => Failed("InvalidAddress")
             /\ (AddressParses(args.address) /\ OnRequestedNetwork)
                   => result = Ok(TRUE)
             /\ (AddressParses(args.address) /\ ~OnRequestedNetwork)
                   => result = Ok(FALSE)

\* A mainnet address validated for testnet: Ok(false).
C14_Witness ==
    /\ ValidateCall
    /\ args.address = <<"bc", 0>>
    /\ args.network = "testnet"
    /\ result = Ok(FALSE)

\* The indexer answered get_utxos of a build_claim_psbt call.
BuildGotUtxos ==
    /\ BuildCall
    /\ pc = "done"
    /\ ops = <<Op("connect", TRUE), Op("get_utxos", TRUE)>>

\* C15: build_claim_psbt fails with the empty-inputs error ("No UTXOs found
\* in vault") and returns no PSBT whenever the indexer returns an empty UTXO
\* list, whatever the fee rate and heir_index.
C15_EmptyUtxoListIsEmptyInputs ==
    (BuildGotUtxos /\ utxos = <<>>)
        => /\ ~result.ok
           /\ result.msg = "No UTXOs found in vault"
           /\ Failed("EmptyInputs")

\* An empty list returned to a call made with the ceiling fee rate and a
\* heir_index beyond the recovery leaves.
C15_Witness ==
    /\ BuildGotUtxos
    /\ utxos = <<>>
    /\ args.fee_rate_sat_vb = FeeCeiling
    /\ args.heir_index >= args.json.doc.recovery_leaves
    /\ ~result.ok
    /\ result.msg = "No UTXOs found in vault"

\* Sum of the values of the first n UTXOs of a list.
RECURSIVE TotalValue(_, _)
TotalValue(us, n) == IF n = 0 THEN 0 ELSE us[n].value + TotalValue(us, n - 1)

\* C16: in every successful build_claim_psbt result total_input_sat is the
\* sum of the values of the UTXOs the indexer returned, num_inputs is their
\* count, and total_input_sat = output_sat + fee_sat with output_sat > 0; a
\* fee of total_input_sat or more never yields a result (InsufficientFunds).
C16_AmountsBalance ==
    /\ (BuildCall /\ pc = "done" /\ result.ok)
          => /\ result.value.total_input_sat = TotalValue(utxos, Len(utxos))
             /\ result.value.num_inputs = Len(utxos)
             /\ result.value.total_input_sat
                   = result.value.output_sat + result.value.fee_sat
             /\ result.value.output_sat > 0
    /\ (/\ BuildGotUtxos
        /\ utxos # <<>>
        /\ estimate_heir_claim_vbytes(Len(utxos), 1,
                tree_depth(args.json.doc.recovery_leaves))
              * args.fee_rate_sat_vb >= TotalValue(utxos, Len(utxos)))
          => /\ ~result.ok
             /\ args.heir_index < args.json.doc.recovery_leaves
                   => result.cause = "InsufficientFunds"

\* Two UTXOs claimed at 1 sat/vB: the result balances, with a positive
\* output.
C16_Witness ==
    /\ BuildGotUtxos
    /\ Len(utxos) = 2
    /\ utxos[1].value # utxos[2].value
    /\ result.ok
    /\ result.value.total_input_sat = utxos[1].value + utxos[2].value
    /\ result.value.num_inputs = 2
    /\ result.value.output_sat > 0
    /\ result.value.output_sat + result.value.fee_sat
          = result.value.total_input_sat

\* One UTXO worth exactly the fee: refused for insufficient funds.
C16_WitnessFeeEqualsTotal ==
    /\ BuildGotUtxos
    /\ Len(utxos) = 1
    /\ utxos[1].value
          = estimate_heir_claim_vbytes(1, 1, 0) * args.fee_rate_sat_vb
    /\ ~result.ok
    /\ result.cause = "InsufficientFunds"

\* C17: a PSBT of build_claim_psbt has one input per UTXO the indexer
\* returned, in the returned order and with the returned outpoint, value and
\* script, each with nSequence = timelock_blocks, and exactly one output,
\* paying the destination.
C17_InputsMirrorUtxos ==
    (BuildCall /\ pc = "done" /\ result.ok)
        => LET psbt == result.value.psbt
           IN  /\ Len(psbt.inputs) = Len(utxos)
               /\ \A i \in 1..Len(utxos) :
                     /\ psbt.inputs[i].previous_output = utxos[i].outpoint
                     /\ psbt.inputs[i].witness_utxo.value = utxos[i].value
                     /\ psbt.inputs[i].witness_utxo.script_pubkey
                           = utxos[i].script_pubkey
                     /\ psbt.inputs[i].sequence
                           = args.json.doc.timelock_blocks.i
               /\ Len(psbt.outputs) = 1
               /\ psbt.outputs[1].address = args.destination_address

\* Two UTXOs of different value claimed: two inputs in the indexer's order,
\* both with the backup's timelock as nSequence, and one output.
C17_Witness ==
    /\ BuildGotUtxos
    /\ result.ok
    /\ Len(utxos) = 2
    /\ utxos[1].value < utxos[2].value
    /\ Len(result.value.psbt.inputs) = 2
    /\ result.value.psbt.inputs[1].previous_output = utxos[1].outpoint
    /\ result.value.psbt.inputs[2].previous_output = utxos[2].outpoint
    /\ result.value.psbt.inputs[2].witness_utxo.value = utxos[2].value
    /\ result.value.psbt.inputs[1].sequence = args.json.doc.timelock_blocks.i
    /\ args.json.doc.timelock_blocks.i > 1
    /\ Len(result.value.psbt.outputs) = 1

OpNames == {"connect", "get_height", "get_utxos", "broadcast"}

\* How often the call attempted an indexer operation.
Attempts(name) == Cardinality({i \in 1..Len(ops) : ops[i].op = name})

\* The operations a successful call of each function rests on.
OpsNeeded ==
    CASE fn = "api.fetch_vault_status" -> {"connect", "get_height", "get_utxos"}
      [] fn = "api.build_claim_psbt" -> {"connect", "get_utxos"}
      [] fn = "ffi.get_block_height" -> {"connect", "get_height"}
      [] BroadcastCall -> {"connect", "broadcast"}
      [] OTHER -> {}

\* C18: within one call every indexer operation is attempted at most once;
\* a failed operation is the call's last, the call ends at once with an
\* indexer error, and a success rests on every operation having succeeded.
C18_IndexerOpsOnceNoRetry ==
    /\ \A name \in OpNames : Attempts(name) <= 1
    /\ \A i \in 1..Len(ops) :
          ~ops[i].ok => /\ i = Len(ops)
                        /\ pc = "done"
                        /\ Failed("Indexer")
    /\ (pc = "done" /\ result.ok)
          => /\ \A i \in 1..Len(ops) : ops[i].ok
             /\ \A name \in OpsNeeded : Attempts(name) = 1

\* fetch_vault_status whose get_height failed after a good connection: an
\* indexer error, and get_utxos never asked.
C18_Witness ==
    /\ fn = "api.fetch_vault_status"
    /\ pc = "done"
    /\ ops = <<Op("connect", TRUE), Op("get_height", FALSE)>>
    /\ Failed("Indexer")
    /\ result.msg = "Failed to get block height"

\* C19: the VaultInfo of a successful import copies the backup: network,
\* vault_address and timelock_blocks are the backup's, heir_count is
\* len(heirs), heir_labels are the heirs' labels in backup order,
\* has_recovery_leaves holds iff recovery_leaves is non-empty, and
\* address_verified is true.
C19_VaultInfoCopiesBackup ==
    (pc = "done" /\ fn = "api.import_vault_backup" /\ result.ok)
        => LET doc == args.json.doc
               info == result.value
           IN  /\ info.network = doc.network.s
               /\ info.vault_address = doc.vault_address.a
               /\ info.timelock_blocks = doc.timelock_blocks.i
               /\ info.heir_count = Len(doc.heirs.labels)
               /\ Len(info.heir_labels) = Len(doc.heirs.labels)
               /\ \A i \in 1..Len(doc.heirs.labels) :
                     info.heir_labels[i] = doc.heirs.labels[i]
               /\ info.has_recovery_leaves <=> doc.recovery_leaves > 0
               /\ info.address_verified

\* A testnet backup with two heirs and recovery leaves, imported.
C19_Witness ==
    /\ pc = "done"
    /\ fn = "api.import_vault_backup"
    /\ result.ok
    /\ args.json.doc.network.s = "testnet"
    /\ args.json.doc.recovery_leaves > 0
    /\ args.json.doc.timelock_blocks.i = 65535
    /\ result.value.timelock_blocks = 65535
    /\ result.value.heir_count = 2
    /\ result.value.heir_labels = <<"Bob", "Alice">>
    /\ result.value.has_recovery_leaves
    /\ result.value.address_verified

ParseCall == pc = "done" /\ fn \in {"api.parse_network", "ffi.parse_network"}

\* The network a parse_network call resolved its tag to, if any.
Resolved == IF result.ok THEN result.value ELSE NoNetwork

\* What the other crate's parse_network makes of the same tag.
OtherCrateResolves ==
    IF fn = "api.parse_network" THEN ffi_parse_network(args.network)
    ELSE parse_network(args.network)

\* C20: in both crates parse_network maps "mainnet" and "bitcoin" to one
\* network, "testnet", "signet" and "regtest" to three further networks,
\* pairwise distinct, and every other tag to an error; the two
\* implementations agree on every tag.
C20_NetworkTagsResolveAlike ==
    ParseCall =>
        /\ args.network \in {"mainnet", "bitcoin"} => result = Ok("Bitcoin")
        /\ args.network = "testnet" => result = Ok("Testnet")
        /\ args.network = "signet" => result = Ok("Signet")
        /\ args.network = "regtest" => result = Ok("Regtest")
        /\ args.network
              \notin {"mainnet", "bitcoin", "testnet", "signet", "regtest"}
              => (~result.ok /\ result.msg = "Unknown network")
        /\ Resolved = OtherCrateResolves

\* The FFI crate resolving "signet", to the network the api resolves it to.
C20_Witness ==
    /\ ParseCall
    /\ fn = "ffi.parse_network"
    /\ args.network = "signet"
    /\ result = Ok("Signet")
    /\ parse_network("signet") = "Signet"

FetchOk == pc = "done" /\ fn = "api.fetch_vault_status" /\ result.ok

\* Heights of the confirmed UTXOs the indexer returned.
ConfirmedHeights ==
    {utxos[i].height : i \in {j \in 1..Len(utxos) : utxos[j].height > 0}}

\* C21: fetch_vault_status evaluates eligibility against the minimum height
\* among the returned UTXOs with height > 0; when none is confirmed (or none
\* exists) that height is the tip, so blocks_remaining is timelock_blocks
\* and eligible is false for every timelock >= 1.
C21_EarliestConfirmedOrTip ==
    FetchOk =>
        LET status == result.value
            k == args.json.doc.timelock_blocks.i
        IN  /\ status.blocks_remaining
                  = k - (tip - status.confirmation_height)
            /\ status.eligible <=> status.blocks_remaining <= 0
            /\ IF ConfirmedHeights = {}
               THEN /\ status.confirmation_height = tip
                    /\ status.blocks_remaining = k
                    /\ k >= 1 => ~status.eligible
               ELSE /\ status.confirmation_height \in ConfirmedHeights
                    /\ \A h \in ConfirmedHeights :
                          status.confirmation_height <= h

\* An unconfirmed UTXO next to a confirmed one: the confirmed
\* height is taken, not 0.
C21_Witness ==
    /\ FetchOk
    /\ Len(utxos) = 2
    /\ utxos[1].height = 0
    /\ utxos[2].height = 2
    /\ tip = MaxHeight
    /\ result.value.confirmation_height = 2

\* Only unconfirmed UTXOs: measured from the tip, not eligible.
C21_WitnessNoneConfirmed ==
    /\ FetchOk
    /\ Len(utxos) = 1
    /\ utxos[1].height = 0
    /\ tip > 0
    /\ result.value.confirmation_height = tip
    /\ result.value.blocks_remaining = args.json.doc.timelock_blocks.i
    /\ ~result.value.eligible

FfiEligibilityCall == pc = "done" /\ fn = "ffi.check_eligibility"

\* C22: in the FFI check_eligibility a non-eligible result with r blocks
\* remaining carries an estimate of m = 10 * r minutes, in days (m / 1440)
\* iff m > 1440, in hours (m / 60) iff 60 < m <= 1440 and in minutes iff
\* m <= 60; an eligible result carries the ready text, and current_height is
\* the supplied tip.
C22_TimeEstimateUnits ==
    FfiEligibilityCall =>
        LET e == result.value
            m == 10 * e.blocks_remaining
        IN  /\ e.current_height = args.current_height
            /\ e.eligible => e.time_remaining.unit = "Ready to claim!"
            /\ ~e.eligible =>
                  /\ e.blocks_remaining >= 1
                  /\ e.time_remaining.unit = "days" <=> m > 1440
                  /\ e.time_remaining.unit = "hours" <=> (60 < m /\ m <= 1440)
                  /\ e.time_remaining.unit = "minutes" <=> m <= 60
                  /\ e.time_remaining.unit = "days"
                        => e.time_remaining.n = m \div 1440
                  /\ e.time_remaining.unit = "hours"
                        => e.time_remaining.n = m \div 60
                  /\ e.time_remaining.unit = "minutes"
                        => e.time_remaining.n = m

\* 144 blocks remaining: 1440 minutes, still told in hours (24).
C22_Witness ==
    /\ FfiEligibilityCall
    /\ ~result.value.eligible
    /\ result.value.blocks_remaining = 144
    /\ result.value.time_remaining = [unit |-> "hours", n |-> 24]
    /\ result.value.current_height = args.current_height

\* 6 blocks remaining: 60 minutes, told in minutes.
C22_WitnessSixtyMinutes ==
    /\ FfiEligibilityCall
    /\ result.value.blocks_remaining = 6
    /\ result.value.time_remaining = [unit |-> "minutes", n |-> 60]

FinalizeCall == pc = "done" /\ fn = "api.finalize_psbt"

FinalizationFailed ==
    ~result.ok /\ result.msg = "Could not finalize the transaction"

\* C23: finalize_psbt checks in a fixed order: text that is not base64 fails
\* with "Invalid base64", base64 that is no PSBT with "Invalid PSBT"; only
\* a deserialized PSBT yields Unsigned, PartiallySigned or
\* FinalizationFailed, and extraction is attempted (it fails or returns the
\* transaction) only when the signed count equals the input count.
C23_FinalizeCheckOrder ==
    FinalizeCall =>
        /\ ~args.psbt_base64.base64
              => (~result.ok /\ result.msg = "Invalid base64"
                    /\ Failed("Codec"))
        /\ (args.psbt_base64.base64 /\ ~args.psbt_base64.is_psbt)
              => (~result.ok /\ result.msg = "Invalid PSBT"
                    /\ Failed("Codec"))
        /\ (Unsigned \/ PartiallySigned \/ FinalizationFailed \/ result.ok)
              => (args.psbt_base64.base64 /\ args.psbt_base64.is_psbt)
        /\ (FinalizationFailed \/ result.ok) => NumSigned = NumInputs
        /\ (FinalizeOfPsbt /\ NumSigned < NumInputs)
              => (Unsigned \/ PartiallySigned)

\* A PSBT that could not be extracted and has one of two inputs signed is
\* refused for its signatures, extraction not being reached.
C23_Witness ==
    /\ FinalizeOfPsbt
    /\ ~args.psbt_base64.psbt.extractable
    /\ NumInputs = 2
    /\ NumSigned = 1
    /\ PartiallySigned

\* The checks of build_claim_psbt other than eligibility pass on the list
\* the indexer returned: it is not empty, heir_index names a recovery leaf,
\* and the values exceed the fee.
BuildChecksPass ==
    /\ BuildGotUtxos
    /\ utxos # <<>>
    /\ args.heir_index < args.json.doc.recovery_leaves
    /\ TotalValue(utxos, Len(utxos))
          > estimate_heir_claim_vbytes(Len(utxos), 1,
                tree_depth(args.json.doc.recovery_leaves))
              * args.fee_rate_sat_vb

\* C24: build_claim_psbt never asks the indexer for the tip and never
\* evaluates eligibility: once its client is made its only indexer
\* operation is one get_utxos, and it returns an unsigned PSBT whenever its
\* other checks pass, whatever the confirmation heights of the UTXOs.
C24_BuildIgnoresEligibility ==
    BuildCall =>
        /\ Attempts("get_height") = 0
        /\ Attempts("broadcast") = 0
        /\ Attempts("get_utxos") <= 1
        /\ tip = 0
        /\ BuildChecksPass
              => /\ result.ok
                 /\ Len(result.value.psbt.inputs) = Len(utxos)
        /\ (pc = "done" /\ result.ok) => BuildChecksPass

\* Two unconfirmed UTXOs, spendable under no tip, and a PSBT is returned.
C24_Witness ==
    /\ BuildChecksPass
    /\ Len(utxos) = 2
    /\ utxos[1].height = 0
    /\ utxos[2].height = 0
    /\ args.json.doc.timelock_blocks.i = 65535
    /\ result.ok
    /\ ops = <<Op("connect", TRUE), Op("get_utxos", TRUE)>>

====
